---- MODULE Spec2Model ----
(***************************************************************************)
(* Model of the shared logic of the web view component                     *)
(* (src/src/WebViewShared.tsx, second definition, lines 260-516) and of    *)
(* the platform shells that mount it (src/unnamed/part_000, part_001).     *)
(*                                                                         *)
(* Strings are sequences of one-character strings, so that the origin      *)
(* extraction, the glob translation and the URL parser are computed, not   *)
(* assumed.                                                                *)
(***************************************************************************)
EXTENDS Integers, Sequences, FiniteSets, TLC

(***************************************************************************)
(* Bounds of the model.                                                    *)
(***************************************************************************)
\* number of should-start-load events the native layer issues in one run
MaxLock == 2

(***************************************************************************)
(* Characters.                                                             *)
(***************************************************************************)
LowerAlpha ==
  {"a", "b", "c", "f", "g", "h", "i", "k", "l", "m", "n", "o", "p", "r", "s",
   "t", "u", "w", "x"}
UpperAlpha == {"A", "H", "P", "S", "T"}
Alpha == LowerAlpha \cup UpperAlpha
Digit == {"0", "1", "2", "3", "4", "5", "6", "7", "8", "9"}
\* [A-Za-z0-9+\-.]
SchemeChar == Alpha \cup Digit \cup {"+", "-", "."}

ToLowerChar(c) ==
  CASE c = "A" -> "a"
    [] c = "H" -> "h"
    [] c = "P" -> "p"
    [] c = "S" -> "s"
    [] c = "T" -> "t"
    [] OTHER -> c

ToLower(s) == [i \in 1..Len(s) |-> ToLowerChar(s[i])]

\* the suffix of s that starts at index i (empty when i > Len(s))
Drop(s, i) == SubSeq(s, i, Len(s))

\* the least member of a non-empty set of integers
Least(S) == CHOOSE k \in S : \A j \in S : k <= j

\* the greatest member of a non-empty set of integers
Greatest(S) == CHOOSE k \in S : \A j \in S : k >= j

\* the least index >= i of s holding a character of set cs, or Len(s)+1
IndexIn(s, i, cs) ==
  LET hits == {k \in i..Len(s) : s[k] \in cs}
  IN IF hits = {} THEN Len(s) + 1 ELSE Least(hits)

\* the least index >= i of s holding a character outside cs, or Len(s)+1
IndexNotIn(s, i, cs) ==
  LET hits == {k \in i..Len(s) : s[k] \notin cs}
  IN IF hits = {} THEN Len(s) + 1 ELSE Least(hits)

\* the greatest index <= i of s holding a character of cs, or 0
LastIndexIn(s, i, cs) ==
  LET hits == {k \in 1..i : s[k] \in cs}
  IN IF hits = {} THEN 0 ELSE Greatest(hits)

(***************************************************************************)
(* A value that is not a string (an event field the native layer left      *)
(* undefined).                                                             *)
(***************************************************************************)
Undefined == <<"(undefined)">>

IsString(v) == v # Undefined

\* JavaScript truthiness of a string-or-undefined value
Truthy(v) == IsString(v) /\ v # <<>>

\* what a string-consuming built-in sees: String(undefined) = "undefined"
\* (no character of it is ':', which is all the callers depend on)
CoerceToString(v) == IF IsString(v) THEN v ELSE <<"u", "n", "d">>

(***************************************************************************)
(* extractOrigin: /^[A-Za-z][A-Za-z0-9+\-.]+:(\/\/)?[^/]*/                 *)
(***************************************************************************)
\* from: the index after "scheme:" or "scheme://"
OriginPrefix(s, from) == SubSeq(s, 1, IndexIn(s, from, {"/"}) - 1)

\* colon: the index of the first character of s that is not a scheme char
OriginMatch(s, colon) ==
  IF /\ Len(s) >= 1
     /\ s[1] \in Alpha
     /\ colon >= 3            \* [A-Za-z0-9+\-.]+ needs one character
     /\ colon <= Len(s)
     /\ s[colon] = ":"
    THEN OriginPrefix(s, IF /\ colon + 2 <= Len(s)
                            /\ s[colon + 1] = "/"
                            /\ s[colon + 2] = "/"
                           THEN colon + 3 ELSE colon + 1)
    ELSE <<>>

OriginOf(s) == OriginMatch(s, IndexNotIn(s, 2, SchemeChar))

extractOrigin(url) == OriginOf(CoerceToString(url))

(***************************************************************************)
(* new URL(url).origin, as the URL parser computes it for the inputs of    *)
(* this model: absolute URLs over the characters above, hosts that are     *)
(* names (not IP literals), ports without leading zeros.                   *)
(*   threw  - the parser rejects the URL (the constructor raises)          *)
(*   origin - the serialized origin otherwise                              *)
(***************************************************************************)
SpecialSchemes ==
  { <<"h", "t", "t", "p">>, <<"h", "t", "t", "p", "s">>,
    <<"w", "s">>, <<"w", "s", "s">>, <<"f", "t", "p">> }

DefaultPort(scheme) ==
  IF scheme \in { <<"h", "t", "t", "p", "s">>, <<"w", "s", "s">> }
    THEN <<"4", "4", "3">>
  ELSE IF scheme \in { <<"h", "t", "t", "p">>, <<"w", "s">> }
    THEN <<"8", "0">>
  ELSE <<"2", "1">>

\* characters a host may not contain
ForbiddenHostChar == {" ", "#", "/", ":", "?", "@", "\\", "%", "<", ">"}

OpaqueOrigin == <<"n", "u", "l", "l">>

\* leading and trailing spaces are stripped before parsing
TrimSpaces(s) ==
  LET first == IndexNotIn(s, 1, {" "})
      keep == {k \in 1..Len(s) : s[k] # " "}
  IN IF keep = {} THEN <<>> ELSE SubSeq(s, first, Greatest(keep))

UrlThrew == [threw |-> TRUE, origin |-> <<>>]

UrlOk(o) == [threw |-> FALSE, origin |-> o]

HostBad(host) == \E i \in 1..Len(host) : host[i] \in ForbiddenHostChar

PortBad(port) == \E i \in 1..Len(port) : port[i] \notin Digit

\* the origin of a special-scheme URL with this host and port
SpecialOrigin(scheme, host, port) ==
  IF host = <<>> \/ HostBad(host) \/ PortBad(port) THEN UrlThrew
  ELSE UrlOk(scheme \o <<":", "/", "/">> \o ToLower(host)
             \o (IF port # <<>> /\ port # DefaultPort(scheme)
                   THEN <<":">> \o port ELSE <<>>))

\* the origin of a URL of another scheme: opaque, once its host is accepted
OpaqueHostOrigin(host, port) ==
  IF HostBad(host) \/ PortBad(port) THEN UrlThrew ELSE UrlOk(OpaqueOrigin)

\* host and port of "host[:port]"
HostOf(hostport) == SubSeq(hostport, 1, IndexIn(hostport, 1, {":"}) - 1)

PortOf(hostport) == Drop(hostport, IndexIn(hostport, 1, {":"}) + 1)

\* "host[:port]" of an authority: what follows the last "@"
HostPortOf(authority) ==
  Drop(authority, LastIndexIn(authority, Len(authority), {"@"}) + 1)

\* the authority of rest that starts at index from and ends before a stop
AuthorityOf(rest, from, stops) ==
  SubSeq(rest, from, IndexIn(rest, from, stops) - 1)

SpecialUrlOrigin(scheme, hostport) ==
  SpecialOrigin(scheme, HostOf(hostport), PortOf(hostport))

OpaqueUrlOrigin(hostport) ==
  OpaqueHostOrigin(HostOf(hostport), PortOf(hostport))

\* rest: what follows "scheme:".  Special schemes skip any run of slashes;
\* the others have an authority only after exactly "//"
OriginAfterScheme(scheme, rest) ==
  IF scheme \in SpecialSchemes
    THEN SpecialUrlOrigin(scheme,
           HostPortOf(AuthorityOf(rest, IndexNotIn(rest, 1, {"/", "\\"}),
                                  {"/", "\\", "?", "#"})))
  ELSE IF Len(rest) >= 2 /\ rest[1] = "/" /\ rest[2] = "/"
    THEN OpaqueUrlOrigin(HostPortOf(AuthorityOf(rest, 3, {"/", "?", "#"})))
  ELSE UrlOk(OpaqueOrigin)

\* colon: the index of the first character of s that is not a scheme char
OriginWithScheme(s, colon) ==
  IF Len(s) >= 1 /\ s[1] \in Alpha /\ colon <= Len(s) /\ s[colon] = ":"
    THEN OriginAfterScheme(ToLower(SubSeq(s, 1, colon - 1)),
                           Drop(s, colon + 1))
    ELSE UrlThrew

ParsedOrigin(s) == OriginWithScheme(s, IndexNotIn(s, 2, SchemeChar))

urlOrigin(url) == ParsedOrigin(TrimSpaces(CoerceToString(url)))

(***************************************************************************)
(* originWhitelistToRegex: escapeStringRegexp(pattern), then every         *)
(* escaped star becomes ".*", anchored at both ends.  A compiled pattern   *)
(* is a sequence of regex tokens: "^", "$", ".*", an escaped character     *)
(* ("\\." ...) or a plain character.                                       *)
(***************************************************************************)
\* escapeStringRegexp: the characters it puts a backslash in front of
EscapeToken(c) ==
  CASE c = "." -> "\\."
    [] c = "*" -> "\\*"
    [] c = "+" -> "\\+"
    [] c = "?" -> "\\?"
    [] c = "-" -> "\\-"
    [] OTHER -> c

escapeStringRegexp(s) == [i \in 1..Len(s) |-> EscapeToken(s[i])]

\* .replace(/\\\*/g, '.*')
ReplaceStar(toks) ==
  [i \in 1..Len(toks) |-> IF toks[i] = "\\*" THEN ".*" ELSE toks[i]]

originWhitelistToRegex(pattern) ==
  <<"^">> \o ReplaceStar(escapeStringRegexp(pattern)) \o <<"$">>

\* the character an escaped or plain token matches
TokenChar(tok) ==
  CASE tok = "\\." -> "."
    [] tok = "\\+" -> "+"
    [] tok = "\\?" -> "?"
    [] tok = "\\-" -> "-"
    [] OTHER -> tok

\* new RegExp(x).test(origin) for a compiled pattern x = ^ ... $ :
\* M[i, j] - the tokens toks[i..] match the whole of origin[j..]
RegExpTest(x, origin) ==
  LET toks == SubSeq(x, 2, Len(x) - 1)
      n == Len(toks)
      m == Len(origin)
      M[i \in 1..(n + 1), j \in 1..(m + 1)] ==
        IF i > n THEN j > m
        ELSE IF toks[i] = ".*"
          THEN \E k \in j..(m + 1) : M[i + 1, k]
        ELSE /\ j <= m
             /\ origin[j] = TokenChar(toks[i])
             /\ M[i + 1, j + 1]
  IN /\ Len(x) >= 2
     /\ x[1] = "^"
     /\ x[Len(x)] = "$"
     /\ M[1, 1]

AboutBlank == <<"a", "b", "o", "u", "t", ":", "b", "l", "a", "n", "k">>

compileWhitelist(whitelist) ==
  [i \in 1..(Len(whitelist) + 1) |->
     originWhitelistToRegex((<<AboutBlank>> \o whitelist)[i])]

(***************************************************************************)
(* _passesWhitelist: "threw" when new URL raises, else the value returned: *)
(* "true", "false" or "null".                                              *)
(***************************************************************************)
WhitelistResult(compiledWhitelist, origin, parsed) ==
  IF origin = <<>> THEN "false"
  ELSE IF parsed.threw THEN "threw"
  ELSE IF origin # parsed.origin THEN "null"
  ELSE IF \E i \in 1..Len(compiledWhitelist) :
             RegExpTest(compiledWhitelist[i], origin)
    THEN "true"
  ELSE "false"

_passesWhitelist(compiledWhitelist, url) ==
  WhitelistResult(compiledWhitelist, extractOrigin(url), urlOrigin(url))

\* the hook's wrapper (lines 389-392)
passesWhitelist(whitelist, url) ==
  IF ~Truthy(url) THEN "false"
  ELSE _passesWhitelist(compileWhitelist(whitelist), url)

\* (variant: only an exact false blocks, an indeterminate result passes)
Falsy_onlyFalse(r) == r = "false"

\* JavaScript's !x for the value of a whitelist check that returned
Falsy(r) == r \in {"false", "null"}


(***************************************************************************)
(* Inputs: the URLs, errors and progress values native events carry.       *)
(***************************************************************************)
\* "https://a.com/p"
UrlA == <<"h", "t", "t", "p", "s", ":", "/", "/", "a", ".", "c", "o", "m", "/", "p">>
\* "https://b.org"
UrlB == <<"h", "t", "t", "p", "s", ":", "/", "/", "b", ".", "o", "r", "g">>
\* "http://a.com" (scheme outside the default whitelist)
UrlHttp == <<"h", "t", "t", "p", ":", "/", "/", "a", ".", "c", "o", "m">>
\* "https://A.com" (textual origin differs from the parsed origin)
UrlCase == <<"h", "t", "t", "p", "s", ":", "/", "/", "A", ".", "c", "o", "m">>
\* "https://" (an origin can be extracted, the URL parser rejects it)
UrlBad == <<"h", "t", "t", "p", "s", ":", "/", "/">>
\* "" (no origin)
UrlEmpty == <<>>

Urls == {UrlA, UrlB, UrlHttp, UrlCase, UrlBad, UrlEmpty}

\* defaultOriginWhitelist = ['https://*']
defaultOriginWhitelist ==
  << <<"h", "t", "t", "p", "s", ":", "/", "/", "*">> >>

Whitelists == {defaultOriginWhitelist}

ErrorEvents ==
  { [domain |-> "NSURLErrorDomain", code |-> -1009, description |-> "offline"],
    [domain |-> "WebKitErrorDomain", code |-> 102, description |-> "interrupted"] }

\* progress in percent; the code compares the fraction with 1
Progresses == {50, 100}

\* the lockIdentifiers the native layer puts on should-start-load events
LockIdentifiers == 1..MaxLock

\* more URLs for the whitelist check on its own
LabUrls ==
  Urls \cup
  { \* 'about:blank'
    <<"a", "b", "o", "u", "t", ":", "b", "l", "a", "n", "k">>,
    \* 'https://a.com:443'
    <<"h", "t", "t", "p", "s", ":", "/", "/", "a", ".", "c", "o", "m", ":",
    "4", "4", "3">>,
    \* 'https://a.com:83/p'
    <<"h", "t", "t", "p", "s", ":", "/", "/", "a", ".", "c", "o", "m", ":",
    "8", "3", "/", "p">>,
    \* 'HTTPS://a.com'
    <<"H", "T", "T", "P", "S", ":", "/", "/", "a", ".", "c", "o", "m">>,
    \* 'https://axcom'
    <<"h", "t", "t", "p", "s", ":", "/", "/", "a", "x", "c", "o", "m">>,
    \* 'ftp://a.com'
    <<"f", "t", "p", ":", "/", "/", "a", ".", "c", "o", "m">>,
    \* 'mailto:a@b.org'
    <<"m", "a", "i", "l", "t", "o", ":", "a", "@", "b", ".", "o", "r", "g">>,
    \* 'https://a.com@b.org/'
    <<"h", "t", "t", "p", "s", ":", "/", "/", "a", ".", "c", "o", "m", "@",
    "b", ".", "o", "r", "g", "/">>,
    \* 'a.com/p'
    <<"a", ".", "c", "o", "m", "/", "p">>,
    \* 'https:/a.com'
    <<"h", "t", "t", "p", "s", ":", "/", "a", ".", "c", "o", "m">> }

\* more whitelists
LabWhitelists ==
  { defaultOriginWhitelist,
    \* []
    <<>>,
    \* ['https://a.com']
    <<<<"h", "t", "t", "p", "s", ":", "/", "/", "a", ".", "c", "o", "m">>>>,
    \* ['*']
    <<<<"*">>>>,
    \* ['https://*.com']
    <<<<"h", "t", "t", "p", "s", ":", "/", "/", "*", ".", "c", "o", "m">>>>,
    \* ['http://a.com', 'https://b.org']
    <<<<"h", "t", "t", "p", ":", "/", "/", "a", ".", "c", "o", "m">>, <<"h",
    "t", "t", "p", "s", ":", "/", "/", "b", ".", "o", "r", "g">>>>,
    \* ['https://a.com:8*']
    <<<<"h", "t", "t", "p", "s", ":", "/", "/", "a", ".", "c", "o", "m",
    ":", "8", "*">>>>,
    \* ['ftp://*']
    <<<<"f", "t", "p", ":", "/", "/", "*">>>> }

(***************************************************************************)
(* passesWhitelistUse (line 394), the memoized hook wrapper, and the       *)
(* interceptor's own check (line 314), tabulated over the inputs.  Merging *)
(* with the empty function makes each table an explicit function, which    *)
(* is computed once.                                                       *)
(***************************************************************************)
passesWhitelistUse ==
  [p \in Whitelists \X (Urls \cup {Undefined}) |->
     passesWhitelist(p[1], p[2])] @@ <<>>

interceptorPasses ==
  [p \in Whitelists \X Urls |->
     _passesWhitelist(compileWhitelist(p[1]), p[2])] @@ <<>>

(***************************************************************************)
(* versionPasses (lines 485-516).  String.prototype.includes and split     *)
(* with the separators the code uses: no two occurrences of ', ', ' <' or  *)
(* '.' overlap, so the pieces lie between consecutive occurrences.         *)
(***************************************************************************)
\* a value that is not a string and is truthy (a number, an object)
NotAString == <<"(not a string)">>

\* the positions at which sep occurs in s
Occurrences(s, sep) ==
  {i \in 1..(Len(s) - Len(sep) + 1) : SubSeq(s, i, i + Len(sep) - 1) = sep}

\* s.includes(sep)
Includes(s, sep) == Occurrences(s, sep) # {}

\* the k-th smallest element of the set of numbers P
Kth(P, k) == CHOOSE p \in P : Cardinality({q \in P : q < p}) = k - 1

\* the k-th piece of s cut at the positions occ of sep
Piece(s, sep, occ, k) ==
  SubSeq(s,
         IF k = 1 THEN 1 ELSE Kth(occ, k - 1) + Len(sep),
         IF k = Cardinality(occ) + 1 THEN Len(s) ELSE Kth(occ, k) - 1)

\* s cut at the positions occ of sep
SplitAt(s, sep, occ) ==
  [k \in 1..(Cardinality(occ) + 1) |-> Piece(s, sep, occ, k)]

\* s.split(sep)
Split(s, sep) == SplitAt(s, sep, Occurrences(s, sep))

DecimalDigits == <<"0", "1", "2", "3", "4", "5", "6", "7", "8", "9">>

IsDecimalDigit(c) == \E d \in 1..10 : DecimalDigits[d] = c

\* /^[0-9]+(\.[0-9]+)*$/.test(s), line 504
versionRegex(s) ==
  /\ Len(s) > 0
  /\ \A i \in 1..Len(s) : IsDecimalDigit(s[i]) \/ s[i] = "."
  /\ s[1] # "." /\ s[Len(s)] # "."
  /\ \A i \in 1..(Len(s) - 1) : ~(s[i] = "." /\ s[i + 1] = ".")

\* the value of a decimal digit
DigitValue(c) == (CHOOSE d \in 1..10 : DecimalDigits[d] = c) - 1

\* Number(s) of a string of decimal digits
NumberOf(s) ==
  LET val[i \in 0..Len(s)] ==
        IF i = 0 THEN 0 ELSE val[i - 1] * 10 + DigitValue(s[i])
  IN val[Len(s)]

\* s.split('.').map(Number)
PartsOf(pieces) == [i \in 1..Len(pieces) |-> NumberOf(pieces[i])]

\* parts[i] || 0, i counted from 1
PartOrZero(parts, i) == IF i <= Len(parts) THEN parts[i] ELSE 0

\* the loop of lines 509-515 from the first index at which the parts differ
CompareFrom(versionParts, minimumParts, differ) ==
  IF differ = {} THEN TRUE
  ELSE PartOrZero(versionParts, Least(differ))
         > PartOrZero(minimumParts, Least(differ))

\* lines 508-515
CompareParts(versionParts, minimumParts, len) ==
  CompareFrom(versionParts, minimumParts,
              {i \in 1..len : PartOrZero(versionParts, i)
                                # PartOrZero(minimumParts, i)})

\* Math.max(a, b)
Max(a, b) == IF a >= b THEN a ELSE b

\* Math.min(a, b)
Min(a, b) == IF a <= b THEN a ELSE b

\* (variant: only the components both have are compared)
CompareVersions_commonParts(versionParts, minimumParts) ==
  CompareParts(versionParts, minimumParts,
               Min(Len(versionParts), Len(minimumParts)))

\* lines 506-515
CompareVersions(versionParts, minimumParts) ==
  CompareParts(versionParts, minimumParts,
               Max(Len(versionParts), Len(minimumParts)))

\* lines 486-487
VersionArgsOk(version, minimum) ==
  /\ version \notin {Undefined, <<>>}
  /\ minimum \notin {Undefined, <<>>}
  /\ version # NotAString
  /\ minimum # NotAString

\* versionPasses of a minimum with neither ', ' nor ' <' (lines 486-487 and
\* 504-515)
versionPassesPlain(version, minimum) ==
  /\ VersionArgsOk(version, minimum)
  /\ versionRegex(version)
  /\ versionRegex(minimum)
  /\ CompareVersions(PartsOf(Split(version, <<".">>)),
                     PartsOf(Split(minimum, <<".">>)))

\* (variant: the upper bound is not tested)
RangePasses_noUpperBound(version, pieces) ==
  /\ Len(pieces) = 2
  /\ versionPassesPlain(version, pieces[1])

\* lines 498-501, pieces being minimum.split(' <').  No piece contains
\* ' <', and none contains ', ' (line 489 has sent such a minimum to the
\* other branch), so the first two calls take the plain branch; the third
\* is reached only after the first has found version to match versionRegex,
\* so it takes the plain branch too.
RangePasses(version, pieces) ==
  /\ Len(pieces) = 2
  /\ versionPassesPlain(version, pieces[1])
  /\ ~versionPassesPlain(version, pieces[2])
  /\ versionPassesPlain(pieces[2], version)

\* versionPasses of a minimum without ', ' (lines 486-487 and 497-515)
versionPassesClause(version, minimum) ==
  /\ VersionArgsOk(version, minimum)
  /\ IF Includes(minimum, <<" ", "<">>)
       THEN RangePasses(version, Split(minimum, <<" ", "<">>))
       ELSE versionPassesPlain(version, minimum)

\* (variant: the clauses' upper bounds are not required)
VariantsPass_noStructure(version, variants) ==
  \E i \in 1..Len(variants) : versionPassesClause(version, variants[i])

\* lines 491-494, variants being minimum.split(', ')
VariantsPass(version, variants) ==
  /\ \A i \in 1..(Len(variants) - 1) : Includes(variants[i], <<" ", "<">>)
  /\ \E i \in 1..Len(variants) : versionPassesClause(version, variants[i])

versionPasses(version, minimum) ==
  /\ VersionArgsOk(version, minimum)
  /\ IF Includes(minimum, <<",", " ">>)
       THEN VariantsPass(version, Split(minimum, <<",", " ">>))
       ELSE versionPassesClause(version, minimum)

(***************************************************************************)
(* The version gate of the iOS shell (part_000 lines 67 and 142-154).      *)
(***************************************************************************)
\* (variant: the first clause's lower bound alone)
hardMinimumIOSVersion_lowerBoundOnly == <<"1", "2", ".", "5", ".", "6">>

\* '12.5.6 <13, 13.6.1 <14, 14.8.1 <15, 15.7.1'
hardMinimumIOSVersion ==
  <<"1", "2", ".", "5", ".", "6", " ", "<", "1", "3", ",", " ", "1",
  "3", ".", "6", ".", "1", " ", "<", "1", "4", ",", " ", "1", "4", ".",
  "8", ".", "1", " ", "<", "1", "5", ",", " ", "1", "5", ".", "7", ".",
  "1">>

\* (variant: one of the two minimums is enough)
VersionGate_either(version, minimumIOSVersion) ==
  \/ versionPasses(version, minimumIOSVersion)
  \/ versionPasses(version, hardMinimumIOSVersion)

\* the condition of line 143, negated
VersionGate(version, minimumIOSVersion) ==
  /\ versionPasses(version, minimumIOSVersion)
  /\ versionPasses(version, hardMinimumIOSVersion)

\* what the component returns at lines 143-154, or goes on to mount
WebViewComponent(version, minimumIOSVersion, hasUnsupportedVersionComponent) ==
  IF ~VersionGate(version, minimumIOSVersion)
    THEN IF hasUnsupportedVersionComponent
           THEN "UnsupportedVersionComponent"
           ELSE "default text"
    ELSE "NativeWebView"

(***************************************************************************)
(* The versions and minimums the functions are evaluated on.  A version is *)
(* drawn as its components and written out in decimal, so that each input  *)
(* carries the numbers its text stands for.                                *)
(***************************************************************************)
\* the most components a drawn version has
MaxParts == 2

\* the most clauses a drawn disjunction has
MaxClauses == 2
\* promises of the external opener in flight at once
MaxProbes == 2

Components == {0, 2, 9, 10}

\* a number below 100 in decimal
Format(n) ==
  IF n < 10 THEN << DecimalDigits[n + 1] >>
  ELSE << DecimalDigits[(n \div 10) + 1], DecimalDigits[(n % 10) + 1] >>

\* the components written out and joined by '.'
FormatVersion(parts) ==
  LET j[i \in 1..Len(parts)] ==
        IF i = 1 THEN Format(parts[1])
        ELSE j[i - 1] \o <<".">> \o Format(parts[i])
  IN j[Len(parts)]

VersionTuples == UNION {[1..k -> Components] : k \in 1..MaxParts}

WellFormed(parts) == [text |-> FormatVersion(parts), parts |-> parts, ok |-> TRUE]

\* well-formed with zeros in front: '02', '2.00'
ZeroPadded ==
  { [text |-> <<"0", "2">>, parts |-> <<2>>, ok |-> TRUE],
    [text |-> <<"2", ".", "0", "0">>, parts |-> <<2, 0>>, ok |-> TRUE] }

Malformed(text) == [text |-> text, parts |-> <<>>, ok |-> FALSE]

\* '', '2.', '.2', '2..0', '2a', '2 ', '-2'
MalformedTexts ==
  { <<>>, <<"2", ".">>, <<".", "2">>, <<"2", ".", ".", "0">>, <<"2", "a">>,
    <<"2", " ">>, <<"-", "2">> }

VersionInputs ==
  {WellFormed(t) : t \in VersionTuples} \cup ZeroPadded
    \cup {Malformed(x) : x \in MalformedTexts \cup {Undefined, NotAString}}

\* a minimum without a range or a disjunction
PlainClause(a) ==
  [text |-> a.text, min |-> a.parts, max |-> <<>>, bounded |-> FALSE,
   ok |-> a.ok, seps |-> 0]

\* 'min <max'
RangeClause(a, b) ==
  [text |-> a.text \o <<" ", "<">> \o b.text, min |-> a.parts,
   max |-> b.parts, bounded |-> TRUE, ok |-> a.ok /\ b.ok, seps |-> 1]

\* 'min <max <more'
DoubleRangeClause(a, b, c) ==
  [text |-> a.text \o <<" ", "<">> \o b.text \o <<" ", "<">> \o c.text,
   min |-> a.parts, max |-> b.parts, bounded |-> TRUE, ok |-> FALSE,
   seps |-> 2]

PlainMinimums ==
  {[kind |-> "plain", text |-> a.text, clauses |-> <<PlainClause(a)>>] :
     a \in VersionInputs}

\* the bounds of the drawn ranges
RangeBounds ==
  {WellFormed(t) : t \in UNION {[1..k -> {0, 9, 10}] : k \in 1..MaxParts}}
    \cup {Malformed(x) : x \in {<<>>, <<"2", ".">>, <<"2", "a">>}}

RangeMinimums ==
  {[kind |-> "range", text |-> RangeClause(a, b).text,
    clauses |-> <<RangeClause(a, b)>>] : a \in RangeBounds, b \in RangeBounds}
  \cup
  {[kind |-> "range", text |-> DoubleRangeClause(a, b, b).text,
    clauses |-> <<DoubleRangeClause(a, b, b)>>] :
     a \in {WellFormed(<<0>>)}, b \in {WellFormed(<<9>>), WellFormed(<<10>>)}}

\* the clauses of the drawn disjunctions
ListBounds == {WellFormed(<<c>>) : c \in {0, 9, 10}}

ListClauses ==
  {PlainClause(a) : a \in ListBounds \cup {Malformed(<<>>)}}
    \cup {RangeClause(a, b) : a \in ListBounds, b \in ListBounds}
    \cup {DoubleRangeClause(WellFormed(<<0>>), WellFormed(<<9>>),
                            WellFormed(<<10>>))}

\* the clauses joined by ', '
JoinClauses(clauses) ==
  LET j[i \in 1..Len(clauses)] ==
        IF i = 1 THEN clauses[1].text
        ELSE j[i - 1] \o <<",", " ">> \o clauses[i].text
  IN j[Len(clauses)]

ListMinimums ==
  {[kind |-> "list", text |-> JoinClauses(cs), clauses |-> cs] :
     cs \in UNION {[1..k -> ListClauses] : k \in 2..MaxClauses}}

\* the versions around the clauses of the hard minimum
HardVersionTuples ==
  UNION { { <<a>>, <<a, b>>, <<a, b, c>> } :
          a \in 11..16, b \in {0, 5, 6, 7, 8}, c \in {0, 1, 6, 9} }

HardVersionInputs ==
  {WellFormed(t) : t \in HardVersionTuples}
    \cup {Malformed(x) : x \in {<<>>, <<"1", "3", ".">>, Undefined}}

HardMinimum ==
  [kind |-> "hard", text |-> hardMinimumIOSVersion,
   clauses |->
     << RangeClause(WellFormed(<<12, 5, 6>>), WellFormed(<<13>>)),
        RangeClause(WellFormed(<<13, 6, 1>>), WellFormed(<<14>>)),
        RangeClause(WellFormed(<<14, 8, 1>>), WellFormed(<<15>>)),
        PlainClause(WellFormed(<<15, 7, 1>>)) >>]

MinimumInputs ==
  PlainMinimums \cup RangeMinimums \cup ListMinimums \cup {HardMinimum}

\* the versions the drawn disjunctions are evaluated on
ListVersionInputs ==
  {WellFormed(t) : t \in {<<0>>, <<2>>, <<9>>, <<10>>, <<9, 2>>}}
    \cup {Malformed(<<"2", ".">>), Malformed(Undefined)}

\* the versions a minimum of that kind is evaluated on
VersionsFor(kind) ==
  IF kind = "hard" THEN HardVersionInputs
  ELSE IF kind = "list" THEN ListVersionInputs
  ELSE VersionInputs

\* String(v) of a string or undefined
StringOf(v) ==
  IF v = Undefined
    THEN <<"u", "n", "d", "e", "f", "i", "n", "e", "d">>
    ELSE v

\* the minimumIOSVersion props the component is rendered with
MinimumIOSVersions ==
  {PlainClause(a) :
     a \in {WellFormed(<<13>>), WellFormed(<<14, 8, 1>>), WellFormed(<<16>>),
            Malformed(<<"1", "3", ".">>), Malformed(<<>>),
            Malformed(Undefined), Malformed(NotAString)}}

(***************************************************************************)
(* State.  An optional value (null or a value) is a sequence of length 0   *)
(* or 1.                                                                   *)
(***************************************************************************)
VARIABLES
  platformOS,           \* Platform.OS
  originWhitelist,      \* prop
  viewState,            \* useState, line 385
  lastErrorEvent,       \* useState, line 386: <<>> is null
  startUrl,             \* useRef, line 387: <<>> is null
  last,                 \* the handler that ran last: inputs, outcome, effects
  validatorRaised,      \* some earlier message made a validator raise
  run,                  \* progress through [start, error, start(u), finish(u)]
  eval,                 \* the function evaluated last: arguments and result
  probes,               \* the promises of Linking.canOpenURL not yet settled
  owed                  \* the URLs whose load has started and not finished

vars == << platformOS, originWhitelist, viewState, lastErrorEvent, startUrl,
           last, validatorRaised, run, eval, probes, owed >>

\* what no event handler writes
config == << platformOS, originWhitelist, eval >>

\* what is in flight: the opener's promises, and the loads the native
\* layer has begun
async == << probes, owed >>

\* the state of the hook
hook == << viewState, lastErrorEvent, startUrl, last, validatorRaised, run >>

\* The record of a handler run, every field at its default.
\*   whitelist      the result of the whitelist check, "none" if not made
\*   hasCallback    the host supplied the callback the handler is about
\*   callback       what that callback did, "none" if it was not called
\*   effects        the calls the handler made, in order
\*   loadRequest    the calls of loadRequest(shouldStart, url, id)
\*   startLoadWithResult   the decisions sent to the native layer
NoHandler ==
  [ op |-> "none", url |-> <<>>, lockIdentifier |-> 0, hasCallback |-> FALSE,
    callback |-> "none", whitelist |-> "none", threw |-> FALSE,
    effects |-> <<>>, loadRequest |-> <<>>, startLoadWithResult |-> <<>>,
    err |-> <<>>, prevented |-> FALSE, progress |-> 0,
    jsonOk |-> "none", validateData |-> "none", validateMeta |-> "none" ]

\* The record of a function evaluation, every field at its default.
\*   v, vOk     the components of version; whether it is well-formed
\*   kind       of minimum: "plain", "range", "list" or "hard"
\*   clauses    the clauses of minimum: their bounds' components
NoCall ==
  [ fn |-> "none", whitelist |-> <<>>, url |-> <<>>, version |-> <<>>,
    v |-> <<>>, vOk |-> FALSE, minimum |-> <<>>, kind |-> "none",
    clauses |-> <<>>, hasPlaceholder |-> FALSE, result |-> "none" ]

\* useState(startInLoadingState ? "LOADING" : "IDLE")
InitialViewState(startInLoadingState) ==
  IF startInLoadingState THEN "LOADING" ELSE "IDLE"

Init ==
  /\ platformOS \in {"ios", "android"}
  /\ originWhitelist \in Whitelists
  /\ \E startInLoadingState \in BOOLEAN :
       viewState = InitialViewState(startInLoadingState)
  /\ lastErrorEvent = <<>>
  /\ startUrl = <<>>
  /\ last = NoHandler
  /\ validatorRaised = FALSE
  /\ run = 0
  /\ eval = NoCall
  /\ probes = {}
  /\ owed = {}

(***************************************************************************)
(* onLoadingStart (lines 405-411).                                         *)
(***************************************************************************)
\* (variant: a started load shows the loading view)
onLoadingStartHandler_setsLoading(url) ==
  /\ startUrl' = <<url>>
  /\ viewState' = "LOADING"
  /\ last' = [NoHandler EXCEPT !.op = "onLoadingStart", !.url = url,
                !.effects = <<"onLoadStart?.", "setViewState">>]
  /\ run' = IF run = 2 THEN 3 ELSE 1
  /\ UNCHANGED << config, lastErrorEvent, validatorRaised >>

\* (variant: a started load forgets the retained error)
onLoadingStartHandler_clearsError(url) ==
  /\ startUrl' = <<url>>
  /\ lastErrorEvent' = <<>>
  /\ last' = [NoHandler EXCEPT !.op = "onLoadingStart", !.url = url,
                !.effects = <<"onLoadStart?.", "setLastErrorEvent">>]
  /\ run' = IF run = 2 THEN 3 ELSE 1
  /\ UNCHANGED << config, viewState, validatorRaised >>

onLoadingStartHandler(url) ==
  /\ startUrl' = <<url>>
  /\ last' = [NoHandler EXCEPT !.op = "onLoadingStart", !.url = url,
                !.effects = <<"onLoadStart?.">>]
  /\ run' = IF run = 2 THEN 3 ELSE 1
  /\ UNCHANGED << config, viewState, lastErrorEvent, validatorRaised >>

onLoadingStart ==
  \E url \in Urls :
    /\ onLoadingStartHandler(url)
    /\ UNCHANGED async

(***************************************************************************)
(* onLoadingError (lines 413-424).  prevented: the host marked the event   *)
(* as handled (preventDefault) in onError or onLoadEnd.                    *)
(***************************************************************************)
\* (variant: the state changes, the error record is not stored)
onLoadingErrorState_noRecord(prevented, event) ==
  IF prevented
    THEN [viewState |-> viewState, lastErrorEvent |-> lastErrorEvent]
    ELSE [viewState |-> "ERROR", lastErrorEvent |-> lastErrorEvent]

\* (variant: an error record already retained is kept)
onLoadingErrorState_keepFirst(prevented, event) ==
  IF prevented
    THEN [viewState |-> viewState, lastErrorEvent |-> lastErrorEvent]
    ELSE [viewState |-> "ERROR",
          lastErrorEvent |-> IF lastErrorEvent = <<>> THEN <<event>>
                             ELSE lastErrorEvent]

\* (variant: isDefaultPrevented is not consulted)
onLoadingErrorState_ignorePrevented(prevented, event) ==
  [viewState |-> "ERROR", lastErrorEvent |-> <<event>>]

onLoadingErrorState(prevented, event) ==
  IF prevented
    THEN [viewState |-> viewState, lastErrorEvent |-> lastErrorEvent]
    ELSE [viewState |-> "ERROR", lastErrorEvent |-> <<event>>]

onLoadingError ==
  \E event \in ErrorEvents, hasOnError \in BOOLEAN, prevented \in BOOLEAN :
    /\ viewState' = onLoadingErrorState(prevented, event).viewState
    /\ lastErrorEvent' = onLoadingErrorState(prevented, event).lastErrorEvent
    /\ last' = [NoHandler EXCEPT !.op = "onLoadingError", !.err = <<event>>,
                  !.prevented = prevented,
                  !.hasCallback = hasOnError,
                  !.effects =
                     <<IF hasOnError THEN "onError" ELSE "console.warn",
                       "onLoadEnd?.">>
                     \o (IF prevented THEN <<>>
                         ELSE <<"setViewState", "setLastErrorEvent">>)]
    /\ run' = IF ~prevented /\ run \in {1, 3} THEN 2 ELSE 0
    /\ UNCHANGED << config, async, startUrl, validatorRaised >>

(***************************************************************************)
(* onLoadingFinish (lines 426-438).                                        *)
(***************************************************************************)
\* (variant: only a view that shows LOADING becomes IDLE)
onLoadingFinishState_onlyFromLoading(pw, url) ==
  IF pw = "true" /\ (platformOS # "android" \/ <<url>> = startUrl)
       /\ viewState = "LOADING"
    THEN "IDLE"
    ELSE viewState

\* (variant: the whitelist is not consulted)
onLoadingFinishState_noWhitelist(pw, url) ==
  IF pw # "threw" /\ (platformOS # "android" \/ <<url>> = startUrl)
    THEN "IDLE"
    ELSE viewState

\* (variant: the finished URL is not compared with the started one)
onLoadingFinishState_noCorrelation(pw, url) ==
  IF pw = "true" THEN "IDLE" ELSE viewState

\* (variant: the finished URL is compared on every platform)
onLoadingFinishState_alwaysCorrelate(pw, url) ==
  IF pw = "true" /\ <<url>> = startUrl THEN "IDLE" ELSE viewState

onLoadingFinishState(pw, url) ==
  IF pw = "true" /\ (platformOS # "android" \/ <<url>> = startUrl)
    THEN "IDLE"
    ELSE viewState

\* (variant: a finished load also forgets the retained error)
onLoadingFinishHandler_clearsRecord(url, pw) ==
  /\ viewState' = onLoadingFinishState(pw, url)
  /\ lastErrorEvent' = IF onLoadingFinishState(pw, url) = "IDLE" THEN <<>>
                        ELSE lastErrorEvent
  /\ last' = [NoHandler EXCEPT !.op = "onLoadingFinish", !.url = url,
                !.whitelist = pw, !.threw = (pw = "threw"),
                !.effects = <<"onLoad?.", "onLoadEnd?.">>]
  /\ run' = 0
  /\ UNCHANGED << config, startUrl, validatorRaised >>

\* the handler, pw being the result of passesWhitelistUse(url)
\* (variant: the host's callbacks are called after the whitelist check)
onLoadingFinishHandler_checkFirst(url, pw) ==
  /\ viewState' = onLoadingFinishState(pw, url)
  /\ last' = [NoHandler EXCEPT !.op = "onLoadingFinish", !.url = url,
                !.whitelist = pw, !.threw = (pw = "threw"),
                !.effects =
                   IF pw # "true" THEN <<>>
                   ELSE <<"onLoad?.", "onLoadEnd?.">>
                        \o (IF platformOS # "android" \/ <<url>> = startUrl
                              THEN <<"setViewState">> ELSE <<>>)]
  /\ run' = IF run = 3 /\ <<url>> = startUrl /\ pw = "true" THEN 4 ELSE 0
  /\ UNCHANGED << config, lastErrorEvent, startUrl, validatorRaised >>

onLoadingFinishHandler(url, pw) ==
  /\ viewState' = onLoadingFinishState(pw, url)
  /\ last' = [NoHandler EXCEPT !.op = "onLoadingFinish", !.url = url,
                !.whitelist = pw, !.threw = (pw = "threw"),
                !.effects =
                   <<"onLoad?.", "onLoadEnd?.">>
                   \o (IF pw = "true"
                          /\ (platformOS # "android" \/ <<url>> = startUrl)
                         THEN <<"setViewState">> ELSE <<>>)]
  /\ run' = IF run = 3 /\ <<url>> = startUrl /\ pw = "true" THEN 4 ELSE 0
  /\ UNCHANGED << config, lastErrorEvent, startUrl, validatorRaised >>

onLoadingFinish ==
  \E url \in Urls :
    /\ onLoadingFinishHandler(url,
                              passesWhitelistUse[<<originWhitelist, url>>])
    /\ UNCHANGED async

(***************************************************************************)
(* onLoadingProgress (lines 452-462).                                      *)
(***************************************************************************)
\* (variant: the state follows the progress, LOADING below 100%)
onLoadingProgressState_trackLoading(pw, progress) ==
  IF pw = "true" /\ platformOS = "android"
    THEN IF progress = 100
           THEN (IF viewState = "LOADING" THEN "IDLE" ELSE viewState)
           ELSE "LOADING"
    ELSE viewState

\* (variant: 100% makes the view IDLE whatever it showed)
onLoadingProgressState_anyState(pw, progress) ==
  IF pw = "true" /\ platformOS = "android" /\ progress = 100
    THEN "IDLE"
    ELSE viewState

onLoadingProgressState(pw, progress) ==
  IF pw = "true" /\ platformOS = "android" /\ progress = 100
       /\ viewState = "LOADING"
    THEN "IDLE"
    ELSE viewState

\* the handler, pw being the result of passesWhitelistUse(url)
onLoadingProgressHandler(url, progress, pw) ==
  /\ viewState' = onLoadingProgressState(pw, progress)
  /\ last' = [NoHandler EXCEPT !.op = "onLoadingProgress", !.url = url,
                !.whitelist = pw, !.threw = (pw = "threw"),
                !.progress = progress,
                !.effects =
                   IF pw = "true" /\ platformOS = "android" /\ progress = 100
                     THEN <<"setViewState">> ELSE <<>>]
  /\ run' = 0
  /\ UNCHANGED << config, lastErrorEvent, startUrl, validatorRaised >>

onLoadingProgress ==
  \E url \in Urls, progress \in Progresses :
    /\ onLoadingProgressHandler(url, progress,
                                passesWhitelistUse[<<originWhitelist, url>>])
    /\ UNCHANGED async

(***************************************************************************)
(* onLoadingProgress of the file's first definition of the hook (lines     *)
(* 226-234): the whitelist is not consulted, and the host's onLoadProgress *)
(* is called.  The other handlers of the first definition write the state  *)
(* as those of the second do.                                              *)
(***************************************************************************)
onLoadingProgressFirstState(progress) ==
  IF platformOS = "android" /\ progress = 100 /\ viewState = "LOADING"
    THEN "IDLE"
    ELSE viewState

onLoadingProgressFirst ==
  \E url \in Urls, progress \in Progresses :
    /\ viewState' = onLoadingProgressFirstState(progress)
    /\ last' = [NoHandler EXCEPT !.op = "onLoadingProgress", !.url = url,
                  !.progress = progress,
                  !.effects =
                     (IF platformOS = "android" /\ progress = 100
                        THEN <<"setViewState">> ELSE <<>>)
                     \o <<"onLoadProgress?.">>]
    /\ run' = 0
    /\ UNCHANGED << config, async, lastErrorEvent, startUrl,
                    validatorRaised >>

(***************************************************************************)
(* createOnShouldStartLoadWithRequest (lines 301-331): the handler's       *)
(* outcome for an event {url, lockIdentifier}, the result pw of the        *)
(* whitelist check, and what the host's callback does when called          *)
(* ("true", "false" or "raise"; hasCallback: the host supplied one).       *)
(***************************************************************************)
\* (variant: the host's callback is not asked, a whitelisted URL is allowed)
createOnShouldStartLoadWithRequest_ignoreCallback(pw, url, lockIdentifier, hasCallback, callback) ==
  LET Call(shouldStart) ==
        << [shouldStart |-> shouldStart, url |-> url,
            lockIdentifier |-> lockIdentifier] >>
  IN IF pw = "threw"
       THEN [threw |-> TRUE, callback |-> "none", effects |-> <<>>,
             loadRequest |-> <<>>]
     ELSE IF Falsy(pw)
       THEN [threw |-> FALSE, callback |-> "none",
             effects |-> <<"Linking.canOpenURL", "loadRequest">>,
             loadRequest |-> Call(FALSE)]
     ELSE [threw |-> FALSE, callback |-> "none",
           effects |-> <<"loadRequest">>,
           loadRequest |-> Call(TRUE)]

createOnShouldStartLoadWithRequest(pw, url, lockIdentifier, hasCallback, callback) ==
  LET Call(shouldStart) ==
        << [shouldStart |-> shouldStart, url |-> url,
            lockIdentifier |-> lockIdentifier] >>
  IN IF pw = "threw"
       THEN [threw |-> TRUE, callback |-> "none", effects |-> <<>>,
             loadRequest |-> <<>>]
     ELSE IF Falsy(pw)
       THEN [threw |-> FALSE, callback |-> "none",
             effects |-> <<"Linking.canOpenURL", "loadRequest">>,
             loadRequest |-> Call(FALSE)]
     ELSE IF hasCallback /\ callback = "raise"
       THEN [threw |-> TRUE, callback |-> callback,
             effects |-> <<"onShouldStartLoadWithRequest">>,
             loadRequest |-> <<>>]
     ELSE IF hasCallback
       THEN [threw |-> FALSE, callback |-> callback,
             effects |-> <<"onShouldStartLoadWithRequest", "loadRequest">>,
             loadRequest |-> Call(callback = "true")]
     ELSE [threw |-> FALSE, callback |-> "none",
           effects |-> <<"loadRequest">>,
           loadRequest |-> Call(TRUE)]

\* onShouldStartLoadWithRequestCallback of the platform shell: the command
\* startLoadWithResult(!!shouldStart, lockIdentifier); the URL is not sent
onShouldStartLoadWithRequestCallback(call) ==
  [result |-> call.shouldStart, lockIdentifier |-> call.lockIdentifier]

\* what the host's interception callback does when called
CallbackOutcomes == {"true", "false", "raise"}

\* the handler has run with outcome out
InterceptorRan(url, lockIdentifier, hasCallback, pw, out) ==
  /\ last' = [NoHandler EXCEPT !.op = "onShouldStartLoadWithRequest",
                !.url = url, !.lockIdentifier = lockIdentifier,
                !.hasCallback = hasCallback,
                !.callback = out.callback, !.whitelist = pw,
                !.threw = out.threw, !.effects = out.effects,
                !.loadRequest = out.loadRequest,
                !.startLoadWithResult =
                   [i \in 1..Len(out.loadRequest) |->
                      onShouldStartLoadWithRequestCallback(
                        out.loadRequest[i])]]
  /\ run' = 0
  /\ UNCHANGED << config, viewState, lastErrorEvent, startUrl,
                  validatorRaised >>

\* pw is the result of the whitelist check; the callback's behaviour is
\* drawn only for an event that reaches the callback
Intercept(url, lockIdentifier, hasCallback, pw) ==
  \E callback \in IF hasCallback /\ pw = "true" THEN CallbackOutcomes
                  ELSE {"none"} :
    InterceptorRan(url, lockIdentifier, hasCallback, pw,
                   createOnShouldStartLoadWithRequest(
                     pw, url, lockIdentifier, hasCallback, callback))

onShouldStartLoadWithRequest ==
  \E url \in Urls, lockIdentifier \in LockIdentifiers,
     hasCallback \in BOOLEAN :
    /\ Intercept(url, lockIdentifier, hasCallback,
                 interceptorPasses[<<originWhitelist, url>>])
    /\ UNCHANGED async

(***************************************************************************)
(* onMessage (lines 440-450): the handler's outcome for the result pw of   *)
(* the whitelist check, a payload that parses as JSON or not, and what the *)
(* two validators do when called ("ok" or "raise").                        *)
(***************************************************************************)
\* (variant: the whitelist result is not looked at)
onMessageOutcome_noWhitelist(pw, jsonOk, vData, vMeta, hasOnMessage) ==
  LET Out(threw, j, d, m, effects) ==
        [threw |-> threw, jsonOk |-> j, validateData |-> d,
         validateMeta |-> m, effects |-> effects]
  IN IF pw = "threw" THEN Out(TRUE, "none", "none", "none", <<>>)
     ELSE IF ~jsonOk
       THEN Out(TRUE, "no", "none", "none", <<"JSON.parse">>)
     ELSE IF vData = "raise"
       THEN Out(TRUE, "yes", "raise", "none",
                <<"JSON.parse", "validateData">>)
     ELSE IF vMeta = "raise"
       THEN Out(TRUE, "yes", "ok", "raise",
                <<"JSON.parse", "validateData", "JSON.stringify",
                  "validateMeta">>)
     ELSE Out(FALSE, "yes", "ok", "ok",
              <<"JSON.parse", "validateData", "JSON.stringify",
                "validateMeta">>
              \o (IF hasOnMessage THEN <<"onMessageProp">> ELSE <<>>))

\* (variant: the message is delivered before the metadata is validated)
onMessageOutcome_deliverFirst(pw, jsonOk, vData, vMeta, hasOnMessage) ==
  LET Out(threw, j, d, m, effects) ==
        [threw |-> threw, jsonOk |-> j, validateData |-> d,
         validateMeta |-> m, effects |-> effects]
      deliver == IF hasOnMessage THEN <<"onMessageProp">> ELSE <<>>
  IN IF pw = "threw" THEN Out(TRUE, "none", "none", "none", <<>>)
     ELSE IF Falsy(pw) THEN Out(FALSE, "none", "none", "none", <<>>)
     ELSE IF ~jsonOk
       THEN Out(TRUE, "no", "none", "none", <<"JSON.parse">>)
     ELSE IF vData = "raise"
       THEN Out(TRUE, "yes", "raise", "none",
                <<"JSON.parse", "validateData">>)
     ELSE Out(vMeta = "raise", "yes", "ok", vMeta,
              <<"JSON.parse", "validateData", "JSON.stringify">>
              \o deliver \o <<"validateMeta">>)

onMessageOutcome(pw, jsonOk, vData, vMeta, hasOnMessage) ==
  LET Out(threw, j, d, m, effects) ==
        [threw |-> threw, jsonOk |-> j, validateData |-> d,
         validateMeta |-> m, effects |-> effects]
  IN IF pw = "threw" THEN Out(TRUE, "none", "none", "none", <<>>)
     ELSE IF Falsy(pw) THEN Out(FALSE, "none", "none", "none", <<>>)
     ELSE IF ~jsonOk
       THEN Out(TRUE, "no", "none", "none", <<"JSON.parse">>)
     ELSE IF vData = "raise"
       THEN Out(TRUE, "yes", "raise", "none",
                <<"JSON.parse", "validateData">>)
     ELSE IF vMeta = "raise"
       THEN Out(TRUE, "yes", "ok", "raise",
                <<"JSON.parse", "validateData", "JSON.stringify",
                  "validateMeta">>)
     ELSE Out(FALSE, "yes", "ok", "ok",
              <<"JSON.parse", "validateData", "JSON.stringify",
                "validateMeta">>
              \o (IF hasOnMessage THEN <<"onMessageProp">> ELSE <<>>))

\* what the payload and the validators of one message do:
\* <<payload parses, validateData, validateMeta>>
MessageBehaviours ==
  { <<FALSE, "ok", "ok">>, <<TRUE, "raise", "ok">>, <<TRUE, "ok", "raise">>,
    <<TRUE, "ok", "ok">> }

\* the handler has run with outcome out
MessageHandled(url, hasOnMessage, pw, out) ==
  /\ last' = [NoHandler EXCEPT !.op = "onMessage", !.url = url,
                !.whitelist = pw, !.threw = out.threw,
                !.effects = out.effects, !.jsonOk = out.jsonOk,
                !.validateData = out.validateData,
                !.validateMeta = out.validateMeta,
                !.hasCallback = hasOnMessage]
  /\ validatorRaised' =
       (validatorRaised
          \/ "raise" \in {out.validateData, out.validateMeta})
  /\ run' = 0
  /\ UNCHANGED << config, viewState, lastErrorEvent, startUrl >>

\* pw is the result of passesWhitelistUse(url); b is what the payload and
\* the validators would do if the handler got to them
Message(url, hasOnMessage, pw) ==
  \E b \in MessageBehaviours :
    MessageHandled(url, hasOnMessage, pw,
                   onMessageOutcome(pw, b[1], b[2], b[3], hasOnMessage))

onMessage ==
  \E url \in Urls \cup {Undefined}, hasOnMessage \in BOOLEAN :
    /\ Message(url, hasOnMessage,
               passesWhitelistUse[<<originWhitelist, url>>])
    /\ UNCHANGED async

(***************************************************************************)
(* reload of the imperative handle (part_000 lines 125-129, part_001       *)
(* lines 123-127): setViewState('LOADING'); Commands.reload(...)           *)
(***************************************************************************)
\* (variant: the native command is sent first)
reloadEffects_commandFirst == <<"Commands.reload", "setViewState">>

reloadEffects == <<"setViewState", "Commands.reload">>

reloadState == "LOADING"

reload ==
  /\ viewState' = reloadState
  /\ last' = [NoHandler EXCEPT !.op = "reload", !.effects = reloadEffects]
  /\ run' = 0
  /\ UNCHANGED << config, async, lastErrorEvent, startUrl, validatorRaised >>

(***************************************************************************)
(* onHttpError, onRenderProcessGone, onContentProcessDidTerminate (lines   *)
(* 176-189): the host's callback, if supplied, is called; nothing else.    *)
(***************************************************************************)
PassThroughHandlers ==
  {"onHttpError", "onRenderProcessGone", "onContentProcessDidTerminate"}

onPassThrough ==
  \E op \in PassThroughHandlers, hasProp \in BOOLEAN :
    /\ last' = [NoHandler EXCEPT !.op = op, !.hasCallback = hasProp,
                  !.effects = IF hasProp THEN <<op \o "Prop">> ELSE <<>>]
    /\ run' = 0
    /\ UNCHANGED << config, async, viewState, lastErrorEvent, startUrl,
                    validatorRaised >>

Next ==
  \/ onPassThrough
  \/ onLoadingStart
  \/ onLoadingError
  \/ onLoadingFinish
  \/ onLoadingProgress
  \/ onLoadingProgressFirst
  \/ onShouldStartLoadWithRequest
  \/ onMessage
  \/ reload

Spec == Init /\ [][Next]_vars

(***************************************************************************)
(* The functions on their own: the whitelist check, versionPasses and the  *)
(* version gate evaluated on drawn arguments, the hook left as it is.      *)
(* Each behaviour is one evaluation.                                       *)
(***************************************************************************)
InitFunctions ==
  /\ platformOS = "ios"
  /\ originWhitelist = defaultOriginWhitelist
  /\ viewState = InitialViewState(FALSE)
  /\ lastErrorEvent = <<>>
  /\ startUrl = <<>>
  /\ last = NoHandler
  /\ validatorRaised = FALSE
  /\ run = 0
  /\ eval = NoCall
  /\ probes = {}
  /\ owed = {}

passesWhitelistCall ==
  /\ eval = NoCall
  /\ \E whitelist \in LabWhitelists, url \in LabUrls :
       /\ eval' = [NoCall EXCEPT !.fn = "_passesWhitelist",
                     !.whitelist = whitelist, !.url = url,
                     !.result = _passesWhitelist(compileWhitelist(whitelist),
                                                 url)]
       /\ UNCHANGED << platformOS, originWhitelist, hook, async >>

BoolResult(b) == IF b THEN "true" ELSE "false"

versionPassesCall ==
  /\ eval = NoCall
  /\ \E minimum \in MinimumInputs :
       \E version \in VersionsFor(minimum.kind) :
         /\ eval' = [NoCall EXCEPT !.fn = "versionPasses",
                       !.version = version.text, !.v = version.parts,
                       !.vOk = version.ok, !.minimum = minimum.text,
                       !.kind = minimum.kind, !.clauses = minimum.clauses,
                       !.result = BoolResult(versionPasses(version.text,
                                                           minimum.text))]
         /\ UNCHANGED << platformOS, originWhitelist, hook, async >>

\* a render of the iOS component, Platform.Version being version
WebViewComponentRender ==
  /\ eval = NoCall
  /\ \E version \in HardVersionInputs, minimum \in MinimumIOSVersions,
        hasUnsupportedVersionComponent \in BOOLEAN :
       /\ eval' = [NoCall EXCEPT !.fn = "WebViewComponent",
                     !.version = version.text, !.v = version.parts,
                     !.vOk = version.ok, !.minimum = minimum.text,
                     !.kind = "plain", !.clauses = <<minimum>>,
                     !.hasPlaceholder = hasUnsupportedVersionComponent,
                     !.result = WebViewComponent(StringOf(version.text),
                                                 minimum.text,
                                                 hasUnsupportedVersionComponent)]
       /\ UNCHANGED << platformOS, originWhitelist, hook, async >>

NextFunctions ==
  \/ passesWhitelistCall
  \/ versionPassesCall
  \/ WebViewComponentRender

SpecFunctions == InitFunctions /\ [][NextFunctions]_vars

(***************************************************************************)
(* The external opener (lines 315-323).  The handler of a URL that fails   *)
(* the whitelist calls Linking.canOpenURL(url) and attaches a then and a   *)
(* catch callback; the callbacks run after the promise settles, in a later *)
(* turn than the handler, between any other handlers.  A promise in flight *)
(* is a record: its URL and the call it waits for.                         *)
(***************************************************************************)
\* /^https:\/\//.test(url) (line 316)
BeginsWithHttps(url) ==
  /\ Len(url) >= 8
  /\ SubSeq(url, 1, 8) = <<"h", "t", "t", "p", "s", ":", "/", "/">>

\* (variant: the scheme of the URL is not tested)
canOpenURLThen_anyScheme(supported, url) ==
  IF supported THEN "Linking.openURL" ELSE "console.warn"

\* the then callback (lines 315-320): the call it makes
canOpenURLThen(supported, url) ==
  IF supported /\ BeginsWithHttps(url)
    THEN "Linking.openURL"
    ELSE "console.warn"

\* the handler of lines 310-330, and the promise it leaves in flight
onShouldStartLoadWithRequestProbing ==
  \E url \in Urls, lockIdentifier \in LockIdentifiers,
     hasCallback \in BOOLEAN :
    /\ Falsy(interceptorPasses[<<originWhitelist, url>>])
         => Cardinality(probes) < MaxProbes
    /\ Intercept(url, lockIdentifier, hasCallback,
                 interceptorPasses[<<originWhitelist, url>>])
    /\ probes' =
         IF Falsy(interceptorPasses[<<originWhitelist, url>>])
           THEN probes \cup {[url |-> url, stage |-> "canOpenURL"]}
           ELSE probes
    /\ UNCHANGED owed

\* what the promise of Linking.canOpenURL settles with
ProbeOutcomes == {"supported", "unsupported", "rejected"}

\* the promise of canOpenURL settles: the then callback runs (lines
\* 316-320), or the catch callback when the promise was rejected (322)
canOpenURLSettled ==
  \E p \in probes, outcome \in ProbeOutcomes :
    /\ p.stage = "canOpenURL"
    /\ last' = [NoHandler EXCEPT
                  !.op = IF outcome = "rejected" THEN "canOpenURL.catch"
                         ELSE "canOpenURL.then",
                  !.url = p.url, !.callback = outcome,
                  !.effects =
                     IF outcome = "rejected" THEN <<"console.warn">>
                     ELSE <<canOpenURLThen(outcome = "supported", p.url)>>]
    /\ probes' =
         (probes \ {p})
           \cup (IF outcome # "rejected"
                      /\ canOpenURLThen(outcome = "supported", p.url)
                           = "Linking.openURL"
                   THEN {[url |-> p.url, stage |-> "openURL"]}
                   ELSE {})
    /\ run' = 0
    /\ UNCHANGED << config, owed, viewState, lastErrorEvent, startUrl,
                    validatorRaised >>

\* the promise of Linking.openURL (line 317) settles: nothing follows when
\* the URL was opened, the catch callback (line 322) runs when it was not
openURLSettled ==
  \E p \in probes, outcome \in {"opened", "rejected"} :
    /\ p.stage = "openURL"
    /\ last' = [NoHandler EXCEPT
                  !.op = IF outcome = "rejected" THEN "openURL.catch"
                         ELSE "openURL.then",
                  !.url = p.url, !.callback = outcome,
                  !.effects = IF outcome = "rejected"
                                THEN <<"console.warn">> ELSE <<>>]
    /\ probes' = probes \ {p}
    /\ run' = 0
    /\ UNCHANGED << config, owed, viewState, lastErrorEvent, startUrl,
                    validatorRaised >>

OpenerCallbacks ==
  {"canOpenURL.then", "canOpenURL.catch", "openURL.then", "openURL.catch"}

NextOpener ==
  \/ onShouldStartLoadWithRequestProbing
  \/ canOpenURLSettled
  \/ openURLSettled
  \/ onLoadingError
  \/ onLoadingFinish
  \/ reload

SpecOpener == Init /\ [][NextOpener]_vars

(***************************************************************************)
(* Loads under fair delivery.  The native layer reports a load-start for   *)
(* a URL and owes the load-finish of that URL; the URLs loaded are ones    *)
(* that pass the whitelist.  Loads keep being started, and every           *)
(* load-finish owed is delivered.                                          *)
(***************************************************************************)
LiveUrls == {UrlA, UrlB}

LoadStarts(url) ==
  /\ onLoadingStartHandler(url)
  /\ owed' = owed \cup {url}
  /\ UNCHANGED probes

LoadFinishes(url) ==
  /\ onLoadingFinishHandler(url, passesWhitelistUse[<<originWhitelist, url>>])
  /\ owed' = owed \ {url}
  /\ UNCHANGED probes

\* the load-finish of a load that was started
OwedLoadFinishes(url) ==
  /\ url \in owed
  /\ LoadFinishes(url)

LoadStartsSome == \E url \in LiveUrls : LoadStarts(url)

LoadFinishesSome == \E url \in LiveUrls : LoadFinishes(url)

NextLive ==
  \/ LoadStartsSome
  \/ LoadFinishesSome
  \/ onLoadingError
  \/ onLoadingProgress
  \/ reload

FairDelivery ==
  /\ WF_vars(LoadStartsSome)
  /\ \A url \in LiveUrls : WF_vars(OwedLoadFinishes(url))

SpecLive == Init /\ [][NextLive]_vars /\ FairDelivery

(***************************************************************************)
(* What the shell renders over the native view (part_000 lines 156-168,    *)
(* part_001 lines 140-152).                                                *)
(***************************************************************************)
otherView ==
  IF viewState = "LOADING" THEN "renderLoading"
  ELSE IF viewState = "ERROR"
    THEN IF lastErrorEvent = <<>> THEN "invariant violation"
         ELSE "renderError"
  ELSE "null"

(***************************************************************************)
(* Helpers of the properties.                                              *)
(***************************************************************************)
\* the number of times the call named e occurs in a handler's effects
Count(effects, e) == Cardinality({i \in 1..Len(effects) : effects[i] = e})

\* call a was made, once, before call b, made once
Before(effects, a, b) ==
  /\ Count(effects, a) = 1
  /\ Count(effects, b) = 1
  /\ \E i, j \in 1..Len(effects) :
       i < j /\ effects[i] = a /\ effects[j] = b

(***************************************************************************)
(* Properties.                                                             *)
(***************************************************************************)

\* C1: whenever viewState is ERROR the retained error record is non-null,
\* so the render-time assertion on lastErrorEvent never fails.
C1_ErrorHasRecord ==
  /\ viewState = "ERROR" => lastErrorEvent # <<>>
  /\ otherView # "invariant violation"

\* the ERROR placeholder is rendered, after a later handler ran
C1_Witness ==
  /\ viewState = "ERROR"
  /\ otherView = "renderError"
  /\ last.op \in {"onMessage", "onShouldStartLoadWithRequest",
                  "onLoadingStart", "onLoadingProgress", "onLoadingFinish"}

\* C2: a should-start-load event whose URL does not pass the whitelist
\* (check returned false or null) gets exactly one decision, it is deny and
\* carries the event's lockIdentifier, and the host's callback is not called.
C2_FailedWhitelistDenied ==
  (last.op = "onShouldStartLoadWithRequest"
     /\ last.whitelist \in {"false", "null"})
  => /\ last.startLoadWithResult =
          << [result |-> FALSE, lockIdentifier |-> last.lockIdentifier] >>
     /\ Count(last.effects, "onShouldStartLoadWithRequest") = 0

\* an indeterminate (null) check with a host callback supplied
C2_Witness ==
  /\ last.op = "onShouldStartLoadWithRequest"
  /\ last.whitelist = "null"
  /\ last.hasCallback
  /\ Len(last.startLoadWithResult) = 1

\* C3: every should-start-load event gets exactly one decision keyed by its
\* lockIdentifier before the handler returns, whatever the URL and whatever
\* the host's callback does.
C3_EveryIdentifierResolved ==
  last.op = "onShouldStartLoadWithRequest"
  => /\ Len(last.startLoadWithResult) = 1
     /\ last.startLoadWithResult[1].lockIdentifier = last.lockIdentifier

\* C4: for a URL that passes the whitelist the decision is the host
\* callback's return value, or allow when no callback was supplied, and it
\* carries the event's own URL and lockIdentifier.
C4_PassedWhitelistDecision ==
  (last.op = "onShouldStartLoadWithRequest" /\ last.whitelist = "true"
     /\ ~last.threw)
  => LET decision == IF last.hasCallback THEN last.callback = "true"
                     ELSE TRUE
     IN /\ last.loadRequest =
             << [shouldStart |-> decision, url |-> last.url,
                 lockIdentifier |-> last.lockIdentifier] >>
        /\ last.startLoadWithResult =
             << [result |-> decision,
                 lockIdentifier |-> last.lockIdentifier] >>

\* the host's callback denied a whitelisted URL
C4_Witness ==
  /\ last.op = "onShouldStartLoadWithRequest"
  /\ last.whitelist = "true"
  /\ last.hasCallback
  /\ last.callback = "false"
  /\ Len(last.loadRequest) = 1
  /\ ~last.loadRequest[1].shouldStart

\* C5: a message whose URL does not pass the whitelist (false, null, falsy
\* or non-string URL) never reaches the host's onMessage, and no validator
\* is run for it.
C5_FailedWhitelistDropped ==
  (last.op = "onMessage"
     /\ (last.whitelist # "true" \/ last.url \in {UrlEmpty, Undefined}))
  => /\ Count(last.effects, "onMessageProp") = 0
     /\ Count(last.effects, "validateData") = 0
     /\ Count(last.effects, "validateMeta") = 0

\* a message without a string URL, the host listening
C5_Witness ==
  /\ last.op = "onMessage"
  /\ last.url = Undefined
  /\ last.whitelist = "false"
  /\ last.hasCallback
  /\ last.effects = <<>>

\* C6: a raising validator keeps the message from the host's onMessage and
\* leaves viewState, the error record and the start URL alone; a later
\* message from a whitelisted URL, with a JSON payload and accepting
\* validators, is delivered exactly once.
C6_Delivery ==
  /\ (last.op = "onMessage"
        /\ "raise" \in {last.validateData, last.validateMeta})
     => Count(last.effects, "onMessageProp") = 0
  /\ (last.op = "onMessage" /\ validatorRaised /\ last.whitelist = "true"
        /\ last.jsonOk = "yes" /\ last.validateData = "ok"
        /\ last.validateMeta = "ok" /\ last.hasCallback)
     => Count(last.effects, "onMessageProp") = 1

C6_Frame ==
  (last'.op = "onMessage"
     /\ "raise" \in {last'.validateData, last'.validateMeta})
  => UNCHANGED << viewState, lastErrorEvent, startUrl >>

C6_ValidatorRaiseIsLocal == [](C6_Delivery) /\ [][C6_Frame]_vars

\* a message is delivered after an earlier one made a validator raise
C6_Witness ==
  /\ validatorRaised
  /\ last.op = "onMessage"
  /\ last.validateData = "ok"
  /\ last.validateMeta = "ok"
  /\ Count(last.effects, "onMessageProp") = 1

\* C7: a load-error event the host did not mark as handled leaves viewState
\* ERROR and the retained record equal to the event's, whatever was
\* retained before.
C7_ErrorRecorded ==
  (last.op = "onLoadingError" /\ ~last.prevented)
  => /\ viewState = "ERROR"
     /\ lastErrorEvent = last.err
     /\ \E e \in ErrorEvents :
          /\ lastErrorEvent = <<e>>
          /\ e.domain = last.err[1].domain
          /\ e.code = last.err[1].code
          /\ e.description = last.err[1].description

C7_Witness ==
  /\ last.op = "onLoadingError"
  /\ ~last.prevented
  /\ viewState = "ERROR"
  /\ lastErrorEvent = last.err

\* C8: a load-error event the host marked as handled leaves viewState and
\* the retained error record as they were.
C8_PreventedErrorFrame ==
  [][ (last'.op = "onLoadingError" /\ last'.prevented)
      => UNCHANGED << viewState, lastErrorEvent >> ]_vars

\* a handled error while the view shows LOADING
C8_Witness ==
  /\ last.op = "onLoadingError"
  /\ last.prevented
  /\ viewState = "LOADING"

\* C9: reload leaves viewState LOADING whatever it was, and issues the
\* state change before it sends the native reload command.
C9_ReloadSetsLoadingFirst ==
  last.op = "reload"
  => /\ viewState = "LOADING"
     /\ Before(last.effects, "setViewState", "Commands.reload")

\* a reload of a view that had retained an error
C9_Witness ==
  /\ last.op = "reload"
  /\ lastErrorEvent # <<>>
  /\ viewState = "LOADING"

\* C10: [load-start, non-suppressed load-error e] leaves ERROR with e's
\* fields; a following [load-start(u), load-finish(u)] with u whitelisted
\* leaves IDLE, on both platforms.  (run counts the handlers of that
\* sequence that have run back to back.)
C10_StartErrorStartFinish ==
  /\ run = 2 => /\ viewState = "ERROR"
                /\ lastErrorEvent = last.err
                /\ last.op = "onLoadingError"
  /\ run = 4 => /\ viewState = "IDLE"
                /\ last.op = "onLoadingFinish"
                /\ last.whitelist = "true"
                /\ startUrl = <<last.url>>

\* the whole sequence has run on Android
C10_Witness ==
  /\ run = 4
  /\ platformOS = "android"
  /\ viewState = "IDLE"
  /\ lastErrorEvent # <<>>

\* (C17 as the state diagram has it) every step that changes viewState is
\* LOADING to IDLE, LOADING to ERROR, ERROR to IDLE, or a reload's step to
\* LOADING: ERROR is entered only from LOADING.
C17_OnlyListedTransitions ==
  [][ viewState' # viewState
      => \/ viewState = "LOADING" /\ viewState' \in {"IDLE", "ERROR"}
         \/ viewState = "ERROR" /\ viewState' = "IDLE"
         \/ viewState' = "LOADING" /\ last'.op = "reload" ]_vars

\* C17: every step that changes viewState is LOADING to IDLE, ERROR to IDLE,
\* IDLE to ERROR, LOADING to ERROR, or a reload's step to LOADING: ERROR is
\* entered from IDLE as well as from LOADING.
C17_Transitions ==
  [][ viewState' # viewState
      => \/ viewState \in {"LOADING", "ERROR"} /\ viewState' = "IDLE"
         \/ viewState \in {"IDLE", "LOADING"} /\ viewState' = "ERROR"
         \/ viewState' = "LOADING" /\ last'.op = "reload" ]_vars

\* an error has been recorded in a view that never saw a load start
C17_Witness ==
  /\ viewState = "ERROR"
  /\ last.op = "onLoadingError"
  /\ ~last.prevented
  /\ startUrl = <<>>

\* C18: a step takes viewState out of ERROR only if it is a load-finish
\* whose URL passes the whitelist (and, on Android, is the recorded start
\* URL), to IDLE, or a reload, to LOADING.
C18_ErrorLeftOnlyByFinishOrReload ==
  [][ (viewState = "ERROR" /\ viewState' # "ERROR")
      => \/ /\ last'.op = "onLoadingFinish"
            /\ last'.whitelist = "true"
            /\ platformOS = "android" => <<last'.url>> = startUrl
            /\ viewState' = "IDLE"
         \/ /\ last'.op = "reload"
            /\ viewState' = "LOADING" ]_vars

\* on Android, a whitelisted URL's progress reached 100% and the view still
\* shows the error
C18_Witness ==
  /\ viewState = "ERROR"
  /\ platformOS = "android"
  /\ last.op = "onLoadingProgress"
  /\ last.whitelist = "true"
  /\ last.progress = 100

\* (C19 as stated) in every state with viewState IDLE or LOADING no error
\* record is retained.
C19_RecordOnlyInError ==
  viewState \in {"IDLE", "LOADING"} => lastErrorEvent = <<>>

\* C19: the error record is not cleared: a step that takes viewState out of
\* ERROR, by a load-finish or by reload, leaves the retained record, the
\* last error's, as it was.
C19_RecordKeptOnLeavingError ==
  [][ (viewState = "ERROR" /\ viewState' # "ERROR")
      => /\ lastErrorEvent' = lastErrorEvent
         /\ lastErrorEvent' # <<>> ]_vars

\* a finished load made the view IDLE and the record is still there
C19_Witness ==
  /\ viewState = "IDLE"
  /\ last.op = "onLoadingFinish"
  /\ last.effects = <<"onLoad?.", "onLoadEnd?.", "setViewState">>
  /\ lastErrorEvent # <<>>

\* C20: a load-finish whose URL's whitelist check gave false or null leaves
\* viewState and the error record as they were; off Android, a load-finish
\* whose URL passes leaves viewState IDLE, whatever the state and the start
\* URL were.
C20_FinishWhitelistGate ==
  [][ last'.op = "onLoadingFinish"
      => /\ last'.whitelist \in {"false", "null"}
              => UNCHANGED << viewState, lastErrorEvent >>
         /\ (platformOS # "android" /\ last'.whitelist = "true")
              => viewState' = "IDLE" ]_vars

\* on iOS a whitelisted URL other than the start URL finished
C20_Witness ==
  /\ platformOS = "ios"
  /\ last.op = "onLoadingFinish"
  /\ last.whitelist = "true"
  /\ viewState = "IDLE"
  /\ startUrl # <<last.url>>

(***************************************************************************)
(* The reference the functions are compared with: glob matching, and the   *)
(* order of versions as sequences of numbers.                              *)
(***************************************************************************)
\* pattern matches the whole of s, '*' standing for any run of characters
\* and any other character for itself
GlobMatch(pattern, s) ==
  LET n == Len(pattern)
      m == Len(s)
      G[i \in 1..(n + 1), j \in 1..(m + 1)] ==
        IF i > n THEN j > m
        ELSE IF pattern[i] = "*"
          THEN G[i + 1, j] \/ (j <= m /\ G[i, j + 1])
        ELSE j <= m /\ s[j] = pattern[i] /\ G[i + 1, j + 1]
  IN G[1, 1]

\* the i-th component, 0 past the end
RefPart(a, i) == IF i <= Len(a) THEN a[i] ELSE 0

\* a >= b, component-wise from the left, missing trailing components 0
RefGeq(a, b) ==
  \A i \in 1..(Len(a) + Len(b)) :
    RefPart(a, i) < RefPart(b, i)
      => \E k \in 1..(i - 1) : RefPart(a, k) > RefPart(b, k)

\* v satisfies a well-formed clause: at or above min and, if the clause has
\* an upper bound, below max
RefSatisfies(v, clause) ==
  /\ clause.ok
  /\ clause.seps <= 1
  /\ RefGeq(v, clause.min)
  /\ clause.bounded => ~RefGeq(v, clause.max)

\* v lies in [12.5.6, 13), [13.6.1, 14), [14.8.1, 15) or at or above 15.7.1
RefHardMinimum(v) ==
  \/ RefGeq(v, <<12, 5, 6>>) /\ ~RefGeq(v, <<13>>)
  \/ RefGeq(v, <<13, 6, 1>>) /\ ~RefGeq(v, <<14>>)
  \/ RefGeq(v, <<14, 8, 1>>) /\ ~RefGeq(v, <<15>>)
  \/ RefGeq(v, <<15, 7, 1>>)

\* C11: the whitelist check returns true exactly when an origin is
\* extracted, equals the parsed origin and is matched in full by a pattern
\* of the whitelist or by 'about:blank'; it returns false when no origin is
\* extracted and null when the extracted and the parsed origin differ.
C11_WhitelistClassification ==
  eval.fn = "_passesWhitelist"
  => LET origin == extractOrigin(eval.url)
         parsed == urlOrigin(eval.url)
         same == ~parsed.threw /\ origin = parsed.origin
     IN /\ (eval.result = "true")
             = (/\ origin # <<>>
                /\ same
                /\ \/ GlobMatch(AboutBlank, origin)
                   \/ \E i \in 1..Len(eval.whitelist) :
                        GlobMatch(eval.whitelist[i], origin))
        /\ origin = <<>> => eval.result = "false"
        /\ (origin # <<>> /\ ~same) => eval.result = "null"

\* C12: for a minimum without range or disjunction, versionPasses is the
\* component-wise version >= minimum when both are well-formed, and false
\* when either is missing, not a string or not digits(.digits)*.
C12_PlainComparison ==
  (eval.fn = "versionPasses" /\ eval.kind = "plain")
  => (eval.result = "true")
       = (/\ eval.vOk
          /\ eval.clauses[1].ok
          /\ RefGeq(eval.v, eval.clauses[1].min))

\* '10' against '9.2': the numbers decide, not the text
C12_Witness ==
  /\ eval.fn = "versionPasses"
  /\ eval.kind = "plain"
  /\ eval.v = <<10>>
  /\ eval.clauses[1].min = <<9, 2>>
  /\ eval.result = "true"

\* C13: for a minimum 'min <max' of well-formed versions, versionPasses is
\* min <= version < max; it is false when the minimum has more than one
\* ' <' or when min or max is not well-formed.
C13_Range ==
  (eval.fn = "versionPasses" /\ eval.kind = "range")
  => /\ (eval.clauses[1].seps > 1 \/ ~eval.clauses[1].ok)
          => eval.result = "false"
     /\ (eval.vOk /\ eval.clauses[1].ok /\ eval.clauses[1].seps = 1)
          => (eval.result = "true")
               = (/\ RefGeq(eval.v, eval.clauses[1].min)
                  /\ ~RefGeq(eval.v, eval.clauses[1].max))

\* '9.10' against '9 <10'
C13_Witness ==
  /\ eval.fn = "versionPasses"
  /\ eval.kind = "range"
  /\ eval.v = <<9, 10>>
  /\ eval.clauses[1].min = <<9>>
  /\ eval.clauses[1].max = <<10>>
  /\ eval.result = "true"

\* C14: for a disjunction, versionPasses is false if a clause other than
\* the last has no upper bound, and otherwise true exactly when the version
\* satisfies one of the clauses.
C14_Disjunction ==
  (eval.fn = "versionPasses" /\ eval.kind = "list")
  => IF \E i \in 1..(Len(eval.clauses) - 1) : ~eval.clauses[i].bounded
       THEN eval.result = "false"
       ELSE (eval.result = "true")
              = (/\ eval.vOk
                 /\ \E i \in 1..Len(eval.clauses) :
                      RefSatisfies(eval.v, eval.clauses[i]))

\* the first clause has no upper bound and the version satisfies the last
C14_Witness ==
  /\ eval.fn = "versionPasses"
  /\ eval.kind = "list"
  /\ ~eval.clauses[1].bounded
  /\ eval.vOk
  /\ RefSatisfies(eval.v, eval.clauses[Len(eval.clauses)])
  /\ eval.result = "false"

\* C15: against the hard minimum, versionPasses is true exactly for the
\* well-formed versions in [12.5.6, 13), [13.6.1, 14), [14.8.1, 15) or at
\* or above 15.7.1.
C15_HardMinimum ==
  (eval.fn = "versionPasses" /\ eval.kind = "hard")
  => (eval.result = "true") = (eval.vOk /\ RefHardMinimum(eval.v))

\* '13.0' fails the hard minimum
C15_Witness ==
  /\ eval.fn = "versionPasses"
  /\ eval.kind = "hard"
  /\ eval.v = <<13, 0>>
  /\ eval.result = "false"

\* C16: the component goes on to the native view only if the platform
\* version passes minimumIOSVersion and the hard minimum; otherwise it
\* returns the host's placeholder if there is one, else the default text.
C16_VersionGate ==
  eval.fn = "WebViewComponent"
  => eval.result
       = IF /\ eval.vOk
            /\ eval.clauses[1].ok
            /\ RefGeq(eval.v, eval.clauses[1].min)
            /\ RefHardMinimum(eval.v)
           THEN "NativeWebView"
         ELSE IF eval.hasPlaceholder THEN "UnsupportedVersionComponent"
         ELSE "default text"

\* a supported platform version, no minimumIOSVersion, no placeholder
C16_Witness ==
  /\ eval.fn = "WebViewComponent"
  /\ eval.v = <<16>>
  /\ eval.minimum = Undefined
  /\ ~eval.hasPlaceholder
  /\ eval.result = "default text"

\* C21: on Android a load-finish whose URL passes the whitelist makes the
\* view IDLE exactly when its URL equals the URL recorded by the most recent
\* load-start, and otherwise (another URL, or no load-start yet) leaves the
\* view as it is; the recorded URL is written by load-start only, each
\* load-start overwriting it with its own URL.
C21_FinishCorrelation ==
  [][ /\ (last'.op = "onLoadingFinish" /\ platformOS = "android"
            /\ last'.whitelist = "true")
         => IF <<last'.url>> = startUrl
              THEN viewState' = "IDLE"
              ELSE viewState' = viewState
      /\ (startUrl' # startUrl => last'.op = "onLoadingStart")
      /\ (last'.op = "onLoadingStart" => startUrl' = <<last'.url>>) ]_vars

\* a whitelisted load-finish on Android for another URL than the one started
C21_Witness ==
  /\ platformOS = "android"
  /\ last.op = "onLoadingFinish"
  /\ last.whitelist = "true"
  /\ startUrl # <<>>
  /\ startUrl # <<last.url>>
  /\ viewState = "LOADING"

\* C22: a load-progress event changes viewState only when its URL passes the
\* whitelist, the platform is Android, the progress is 100% and the view is
\* LOADING, and then to IDLE; every other load-progress event leaves
\* viewState as it is.
C22_ProgressGate ==
  [][ last'.op = "onLoadingProgress"
      => IF /\ passesWhitelistUse[<<originWhitelist, last'.url>>] = "true"
            /\ platformOS = "android"
            /\ last'.progress = 100
            /\ viewState = "LOADING"
           THEN viewState' = "IDLE"
           ELSE viewState' = viewState ]_vars

\* C23: load-start, http-error, render-process-gone,
\* content-process-terminated, should-start-load and message events leave
\* viewState and the error record as they are, whatever the host's callbacks
\* and validators do; of the hook's state a load-start writes the recorded
\* start URL only, and the others write nothing.
C23_NotificationsKeepState ==
  [][ (last'.op \in PassThroughHandlers
                      \cup {"onLoadingStart", "onShouldStartLoadWithRequest",
                            "onMessage"})
      => /\ UNCHANGED << viewState, lastErrorEvent >>
         /\ (last'.op # "onLoadingStart" => UNCHANGED startUrl) ]_vars

\* a load-start while the error view is shown
C23_Witness ==
  /\ last.op = "onLoadingStart"
  /\ viewState = "ERROR"
  /\ lastErrorEvent # <<>>
  /\ startUrl = <<last.url>>

\* C24: every load-finish calls onLoad and then onLoadEnd, once each and
\* before any state change, whether or not its URL passes the whitelist.
C24_FinishCallbacksFirst ==
  last.op = "onLoadingFinish"
  => /\ Len(last.effects) >= 2
     /\ last.effects[1] = "onLoad?."
     /\ last.effects[2] = "onLoadEnd?."
     /\ Before(last.effects, "onLoad?.", "onLoadEnd?.")
     /\ \A i \in 1..Len(last.effects) :
          last.effects[i] = "setViewState" => i > 2

\* a load-finish whose URL fails the whitelist
C24_Witness ==
  /\ last.op = "onLoadingFinish"
  /\ last.whitelist = "false"
  /\ Before(last.effects, "onLoad?.", "onLoadEnd?.")

\* C25: a message from a whitelisted URL whose payload is not JSON is
\* dropped: onMessage is not called, no exception leaves the handler, and
\* viewState and the error record stay as they are.
C25_NonJsonDropped ==
  [][ (last'.op = "onMessage" /\ last'.whitelist = "true"
         /\ last'.jsonOk = "no")
      => /\ Count(last'.effects, "onMessageProp") = 0
         /\ ~last'.threw
         /\ UNCHANGED << viewState, lastErrorEvent >> ]_vars

\* C26: the external opener is a side effect of a denied load.  A promise
\* of the opener starts only in the handler of a URL that failed the
\* whitelist, in the turn in which the deny decision for that event is
\* sent, so it settles after the decision; Linking.openURL is called only
\* from the callback of such a promise, for a URL that failed the whitelist
\* and begins with 'https://', when the probe reported the URL openable;
\* whatever the probe or the open settles with, the callbacks send no
\* decision, raise nothing and leave viewState, the error record and the
\* recorded start URL as they are.
C26_OpenerIsSideEffect ==
  [][ /\ (probes' \ probes # {} /\ last'.op \notin OpenerCallbacks)
         => /\ last'.op = "onShouldStartLoadWithRequest"
            /\ Falsy(last'.whitelist)
            /\ last'.startLoadWithResult =
                 << [result |-> FALSE,
                     lockIdentifier |-> last'.lockIdentifier] >>
            /\ probes' \ probes
                 = {[url |-> last'.url, stage |-> "canOpenURL"]}
      /\ (Count(last'.effects, "Linking.openURL") > 0)
         => /\ last'.op = "canOpenURL.then"
            /\ last'.callback = "supported"
            /\ BeginsWithHttps(last'.url)
            /\ interceptorPasses[<<originWhitelist, last'.url>>] # "true"
            /\ [url |-> last'.url, stage |-> "canOpenURL"] \in probes
      /\ (last'.op \in OpenerCallbacks)
         => /\ last'.loadRequest = <<>>
            /\ last'.startLoadWithResult = <<>>
            /\ ~last'.threw
            /\ UNCHANGED << viewState, lastErrorEvent, startUrl >> ]_vars

\* the open of a denied URL was rejected while the error view is shown
C26_Witness ==
  /\ last.op = "openURL.catch"
  /\ BeginsWithHttps(last.url)
  /\ viewState = "ERROR"

\* C27: viewState becomes LOADING by reload only (it is LOADING before that
\* only as the configured initial state): no native event, load-start in
\* particular, takes the view from IDLE or ERROR to LOADING.
C27_LoadingOnlyByReload ==
  [][ (viewState' = "LOADING" /\ viewState # "LOADING")
      => last'.op = "reload" ]_vars

\* a load-start while the view is IDLE
C27_Witness ==
  /\ last.op = "onLoadingStart"
  /\ viewState = "IDLE"
  /\ startUrl = <<last.url>>


====
